---- MODULE Spec2Model ----
(***************************************************************************)
(* Model of the Kindle clippings parser (src/main.py, class KindleParser). *)
(*                                                                         *)
(* Text is modelled at the granularity the code reads it: a file is a      *)
(* sequence of lines, a line is a sequence of tokens (a blank line is the  *)
(* empty sequence), and a token is a string.  The regular expressions of   *)
(* parse_metadata become searches over the tokens of a line.  Python's     *)
(* None is the empty sequence and a present optional value x is <<x>>.     *)
(*                                                                         *)
(* Two specifications share the operators that model the parser:           *)
(*   Spec     the loop of parse_clippings, one iteration per entry;        *)
(*   SpecRun  process_clippings_file against a file system, run after run. *)
(***************************************************************************)
EXTENDS Integers, Sequences, FiniteSets, TLC

VARIABLES
    books,                     \* self.books: title -> Book
    errors,                    \* self.errors: sequence of Error
    processed_entries,         \* self.processed_entries: set of fingerprints
    last_processed_timestamp,  \* self.last_processed_timestamp: optional datetime
    entries,                   \* parse_clippings: the entries the loop has taken so far
    pc,                        \* where the running call stands
    content,                   \* process_clippings_file: the text read from the input file
    input_file,                \* file system: the clippings file
    output_file,               \* file system: the JSON output, which is also the ledger
    prior_output,              \* the output file as it was when the current run started
    run                        \* number of the current run of process_clippings_file

vars == <<books, errors, processed_entries, last_processed_timestamp, entries,
          pc, content, input_file, output_file, prior_output, run>>

parserVars == <<books, errors, processed_entries, last_processed_timestamp>>
fileVars == <<content, input_file, output_file, prior_output, run>>

\* ---------------------------------------------------------------- bounds
MaxEntries == 4     \* Spec: entries one call of parse_clippings iterates over
MaxBlocks == 3      \* SpecRun: entry blocks in the input file
MaxRuns == 2        \* SpecRun: successive runs on the same files

\* ------------------------------------------------------------- optionals
None == <<>>
Some(x) == <<x>>

Range(s) == {s[k] : k \in 1..Len(s)}

\* ------------------------------------------------------------------ text
Blank == <<>>
Delimiter == <<"==========">>

\* A token holding a code point above 127 is written with '#' in its place.
NonAsciiAuthor == "Gabriel Garc#a M#rquez"

CleanToken(tok) ==
    IF tok = NonAsciiAuthor THEN "Gabriel Garc a M rquez" ELSE tok

CleanLine(line) == [k \in 1..Len(line) |-> CleanToken(line[k])]

\* clean_text: every character with ord >= 128 becomes one space; the line
\* structure is kept.
clean_text(text) == [k \in 1..Len(text) |-> CleanLine(text[k])]

RECURSIVE JoinWith(_, _)
JoinWith(strs, sep) ==
    IF Len(strs) = 0 THEN ""
    ELSE IF Len(strs) = 1 THEN strs[1]
    ELSE strs[1] \o sep \o JoinWith(Tail(strs), sep)

\* The text of a line: its tokens separated by single spaces.
LineText(line) == JoinWith(line, " ")

\* First position k >= from with s[k] = x, or 0.
RECURSIVE IndexFrom(_, _, _)
IndexFrom(s, x, from) ==
    IF from > Len(s) THEN 0
    ELSE IF s[from] = x THEN from
    ELSE IndexFrom(s, x, from + 1)

\* str.split(sep) on a sequence: the parts between the occurrences of sep
\* (n occurrences give n + 1 parts, empty parts included).
RECURSIVE SplitOn(_, _)
SplitOn(s, sep) ==
    LET k == IndexFrom(s, sep, 1)
    IN  IF k = 0 THEN <<s>>
        ELSE <<SubSeq(s, 1, k - 1)>> \o SplitOn(SubSeq(s, k + 1, Len(s)), sep)

RECURSIVE RStrip(_, _)
RStrip(s, x) ==
    IF Len(s) > 0 /\ s[Len(s)] = x THEN RStrip(SubSeq(s, 1, Len(s) - 1), x) ELSE s

RECURSIVE LStrip(_, _)
LStrip(s, x) ==
    IF Len(s) > 0 /\ s[1] = x THEN LStrip(Tail(s), x) ELSE s

\* str.strip() on a block of lines: leading and trailing blank lines go.
StripLines(lines) == LStrip(RStrip(lines, Blank), Blank)

\* ------------------------------------------------------------- datetimes
\* A datetime is the number of minutes after 2024-01-01T00:00:00.
DateTable ==
    ("Monday, January 1, 2024 8:00:00 AM" :> 480) @@
    ("Monday, January 1, 2024 8:05:00 AM" :> 485)

DateFormat == "%A, %B %d, %Y %I:%M:%S %p"

IsoTable ==
    (0 :> "2024-01-01T00:00:00") @@
    (480 :> "2024-01-01T08:00:00") @@
    (485 :> "2024-01-01T08:05:00") @@
    (990 :> "2024-01-01T16:30:00")

\* datetime.isoformat()
isoformat(dt) == IsoTable[dt]

\* The strings datetime.fromisoformat accepts: the full form, and a bare date,
\* which is read as midnight.
FromIsoTable ==
    ("2024-01-01" :> 0) @@
    [s \in {IsoTable[d] : d \in DOMAIN IsoTable} |->
        CHOOSE d \in DOMAIN IsoTable : IsoTable[d] = s]

\* ------------------------------------------------------------ exceptions
\* What a call gives back: the parser state it leaves and the exception it
\* raised, if any.
Ok(st) == [st |-> st, exc |-> None]
Raised(st, type, msg) == [st |-> st, exc |-> Some([type |-> type, msg |-> msg])]

\* The classes `except Exception` catches.
ExceptionClasses == {"ValueError", "AttributeError", "IndexError"}

NoneTypeHasNoStart == "'NoneType' object has no attribute 'start'"

\* ------------------------------------------------------- field extractor
IntOf == ("12" :> 12) @@ ("200" :> 200) @@ ("210" :> 210) @@ ("300" :> 300)

\* Tokens that \w+ matches whole.
WordTokens ==
    {"Your", "Highlight", "Note", "Bookmark", "Clip", "on", "page", "Location"}
        \cup DOMAIN IntOf

Min(S) == CHOOSE m \in S : \A n \in S : m <= n

\* re.search of a key token followed by a token of the given class: the
\* position of the leftmost match, or 0.
SearchAfter(line, key, class) ==
    LET hits == {k \in 1..(Len(line) - 1) : line[k] = key /\ line[k + 1] \in class}
    IN  IF hits = {} THEN 0 ELSE Min(hits)

parse_book_info(book_info) ==
    LET parts == SplitOn(book_info, "(")
        title == LineText(parts[1])
        last == RStrip(parts[Len(parts)], ")")
        names == SplitOn(last, ",")
        authors == [k \in 1..Len(names) |-> LineText(names[k])]
    IN  [title |-> title, authors |-> authors]

\* parse_metadata gives [exc, entry_type, page, location, date_added]; the
\* fields other than exc mean nothing when exc is set.
MetadataError(type, msg) ==
    [exc |-> Some([type |-> type, msg |-> msg]), entry_type |-> "",
     page |-> None, location |-> None, date_added |-> 0]

parse_metadata(metadata) ==
    LET entry_type_match == SearchAfter(metadata, "Your", WordTokens)
        page_match == SearchAfter(metadata, "page", DOMAIN IntOf)
        location_match == SearchAfter(metadata, "Location", DOMAIN IntOf)
        date_match == SearchAfter(metadata, "Added on", Range(metadata))
        hasEnd == /\ location_match + 3 <= Len(metadata)
                  /\ metadata[location_match + 2] = "-"
                  /\ metadata[location_match + 3] \in DOMAIN IntOf
        location ==
            IF location_match # 0
            THEN Some([start |-> IntOf[metadata[location_match + 1]],
                       end |-> IF hasEnd
                               THEN Some(IntOf[metadata[location_match + 3]])
                               ELSE None])
            ELSE None
        date_text == LineText(SubSeq(metadata, date_match + 1, Len(metadata)))
    IN  IF entry_type_match = 0 \/ date_match = 0
        THEN MetadataError("ValueError",
                           "Invalid metadata format: " \o LineText(metadata))
        ELSE IF date_text \notin DOMAIN DateTable
        THEN MetadataError("ValueError",
                           "time data '" \o date_text
                               \o "' does not match format '" \o DateFormat \o "'")
        ELSE [exc |-> None,
              entry_type |-> metadata[entry_type_match + 1],
              page |-> IF page_match # 0
                       THEN Some(IntOf[metadata[page_match + 1]])
                       ELSE None,
              location |-> location,
              date_added |-> DateTable[date_text]]

\* ------------------------------------------------------------ data model
Location(start, end) == [start |-> start, end |-> end]

Note(c, date_added, page, location) ==
    [content |-> c, date_added |-> date_added, page |-> page, location |-> location]

Highlight(c, date_added, page, location) ==
    [content |-> c, date_added |-> date_added, page |-> page, note |-> None,
     location |-> location]

Book(title, authors) ==
    [title |-> title, authors |-> authors, highlights |-> <<>>, notes |-> <<>>,
     bookmarks |-> <<>>]

Error(line_number, error_message) ==
    [line_number |-> line_number, error_message |-> error_message]

\* KindleParser.__init__
KindleParserInit ==
    [books |-> <<>>, errors |-> <<>>, processed_entries |-> {},
     last_processed_timestamp |-> None]

\* ------------------------------------------------- classifier and merger
\* get_or_create_book as it would be if a later entry refreshed the authors.
get_or_create_book_refreshing(st, title, authors) ==
    IF title \notin DOMAIN st.books
    THEN [st EXCEPT !.books = st.books @@ (title :> Book(title, authors))]
    ELSE [st EXCEPT !.books[title].authors = authors]

\* The books mapping after get_or_create_book; the Book is then st.books[title].
get_or_create_book(st, title, authors) ==
    IF title \notin DOMAIN st.books
    THEN [st EXCEPT !.books = st.books @@ (title :> Book(title, authors))]
    ELSE st

add_highlight(st, book_title, authors, c, location, date_added, page) ==
    LET st1 == get_or_create_book(st, book_title, authors)
        highlight == Highlight(c, date_added, page, location)
    IN  Ok([st1 EXCEPT !.books[book_title].highlights = Append(@, highlight)])

\* next(h for h in reversed(highlights) if h.location.start == location.start):
\* the index of the matching highlight, 0 when the scan ends without one, -1
\* when reading .start of an absent location raises AttributeError.
RECURSIVE ScanHighlights(_, _, _)
ScanHighlights(highlights, k, location) ==
    IF k = 0 THEN 0
    ELSE IF highlights[k].location = None THEN -1
    ELSE IF location = None THEN -1
    ELSE IF highlights[k].location[1].start = location[1].start THEN k
    ELSE ScanHighlights(highlights, k - 1, location)

\* add_note as it would be if the Note's location start were read once, ahead
\* of the scan.
add_note_eager(st, book_title, authors, c, date_added, location, page) ==
    LET st1 == get_or_create_book(st, book_title, authors)
        book == st1.books[book_title]
        note == Note(c, date_added, page, location)
        matching_highlight ==
            ScanHighlights(book.highlights, Len(book.highlights), location)
    IN  IF location = None \/ matching_highlight = -1
        THEN Raised(st1, "AttributeError", NoneTypeHasNoStart)
        ELSE IF matching_highlight # 0
        THEN Ok([st1 EXCEPT
                    !.books[book_title].highlights[matching_highlight].note =
                        Some(note)])
        ELSE Ok([st1 EXCEPT !.books[book_title].notes = Append(@, note)])

add_note(st, book_title, authors, c, date_added, location, page) ==
    LET st1 == get_or_create_book(st, book_title, authors)
        book == st1.books[book_title]
        note == Note(c, date_added, page, location)
        matching_highlight ==
            ScanHighlights(book.highlights, Len(book.highlights), location)
    IN  IF matching_highlight = -1
        THEN Raised(st1, "AttributeError", NoneTypeHasNoStart)
        ELSE IF matching_highlight # 0
        THEN Ok([st1 EXCEPT
                    !.books[book_title].highlights[matching_highlight].note =
                        Some(note)])
        ELSE Ok([st1 EXCEPT !.books[book_title].notes = Append(@, note)])

add_bookmark(st, book_title, authors, location, date_added, page) ==
    LET st1 == get_or_create_book(st, book_title, authors)
        bookmark == [location |-> location, date_added |-> date_added, page |-> page]
    IN  Ok([st1 EXCEPT !.books[book_title].bookmarks = Append(@, bookmark)])

\* ----------------------------------------------------------- dedup ledger
\* hashlib.md5(entry.encode()).hexdigest(): a digest is written as the text it
\* is the digest of, so that different entries have different digests.
EntryText(entry) == JoinWith([k \in 1..Len(entry) |-> LineText(entry[k])], "\n")

generate_entry_id(entry) == "md5:" \o EntryText(entry)

is_processed(st, entry_id) == entry_id \in st.processed_entries

\* now: the value datetime.now() returns.
mark_as_processed(st, entry_id, now) ==
    [st EXCEPT !.processed_entries = @ \cup {entry_id},
               !.last_processed_timestamp = Some(now)]

\* ---------------------------------------------------------- parse_entry
\* '\n'.join(lines[2:]).strip()
BodyText(lines) ==
    LET body == StripLines(SubSeq(lines, 3, Len(lines)))
    IN  JoinWith([k \in 1..Len(body) |-> LineText(body[k])], "\n")

parse_entry(st, entry, line_number) ==
    LET lines == entry
    IN  IF Len(lines) < 2
        THEN Raised(st, "ValueError",
                    "Invalid entry format at line " \o ToString(line_number))
        ELSE
        LET info == parse_book_info(lines[1])
            meta == parse_metadata(lines[2])
            c == IF Len(lines) > 2 THEN BodyText(lines) ELSE ""
        IN  IF meta.exc # None
            THEN [st |-> st, exc |-> meta.exc]
            ELSE IF meta.entry_type = "Highlight"
            THEN add_highlight(st, info.title, info.authors, c, meta.location,
                               meta.date_added, meta.page)
            ELSE IF meta.entry_type = "Note"
            THEN add_note(st, info.title, info.authors, c, meta.date_added,
                          meta.location, meta.page)
            ELSE IF meta.entry_type = "Bookmark"
            THEN add_bookmark(st, info.title, info.authors, meta.location,
                              meta.date_added, meta.page)
            ELSE Ok(st)

\* ------------------------------------------- parse_clippings, as it is not
\* The loop body as it would be with enumerate(entries, 1).
ParseIterationOneBased(st, raw_entry, i) ==
    LET entry == StripLines(raw_entry)
        r == parse_entry(st, entry, i + 1)
    IN  IF Len(entry) = 0
        THEN [st |-> st, raised |-> None]
        ELSE IF r.exc = None
        THEN [st |-> r.st, raised |-> None]
        ELSE [st |-> [r.st EXCEPT !.errors = Append(@, Error(i + 1, r.exc[1].msg))],
              raised |-> None]

\* The loop body as it would be if it skipped the entries the ledger holds.
ParseIterationSkipping(st, raw_entry, i) ==
    LET entry == StripLines(raw_entry)
        r == parse_entry(st, entry, i)
    IN  IF Len(entry) = 0 \/ is_processed(st, generate_entry_id(entry))
        THEN [st |-> st, raised |-> None]
        ELSE IF r.exc = None
        THEN [st |-> r.st, raised |-> None]
        ELSE [st |-> [r.st EXCEPT !.errors = Append(@, Error(i, r.exc[1].msg))],
              raised |-> None]

\* The loop body as it would be if it entered every parsed entry in the ledger
\* (datetime.now() being 2024-01-01T16:30:00).
ParseIterationMarking(st, raw_entry, i) ==
    LET entry == StripLines(raw_entry)
        r == parse_entry(st, entry, i)
    IN  IF Len(entry) = 0
        THEN [st |-> st, raised |-> None]
        ELSE IF r.exc = None
        THEN [st |-> mark_as_processed(r.st, generate_entry_id(entry), 990),
              raised |-> None]
        ELSE [st |-> [r.st EXCEPT !.errors = Append(@, Error(i, r.exc[1].msg))],
              raised |-> None]

\* The loop body as it would be with the ledger in use: skip what it holds,
\* enter what was parsed.
ParseIterationDedup(st, raw_entry, i) ==
    IF is_processed(st, generate_entry_id(StripLines(raw_entry)))
    THEN [st |-> st, raised |-> None]
    ELSE ParseIterationMarking(st, raw_entry, i)

\* ------------------------------------------------------ parse_clippings
\* The body of the loop for the entry at index i: strip, skip an empty entry,
\* parse, and turn an exception into an Error.  `raised` is the exception that
\* leaves the loop: one `except Exception` does not catch.
ParseIteration(st, raw_entry, i) ==
    LET entry == StripLines(raw_entry)
    IN  IF Len(entry) = 0
        THEN [st |-> st, raised |-> None]
        ELSE
        LET r == parse_entry(st, entry, i)
        IN  IF r.exc = None
            THEN [st |-> r.st, raised |-> None]
            ELSE IF r.exc[1].type \in ExceptionClasses
            THEN [st |-> [r.st EXCEPT !.errors =
                            Append(@, Error(i, r.exc[1].msg))],
                  raised |-> None]
            ELSE [st |-> r.st, raised |-> r.exc]

\* The loop over entries[k..], numbered from 0 as enumerate does; r is what the
\* iterations before k gave.
RECURSIVE ParseFrom(_, _, _)
ParseFrom(r, ents, k) ==
    IF k > Len(ents) \/ r.raised # None THEN r
    ELSE ParseFrom(ParseIteration(r.st, ents[k], k - 1), ents, k + 1)

\* cleaned_content.split("=========="): the blocks of lines between the
\* delimiter lines.
SplitEntries(text) == SplitOn(text, Delimiter)

parse_clippings(st, text) ==
    ParseFrom([st |-> st, raised |-> None], SplitEntries(clean_text(text)), 1)

\* ---------------------------------------------------- persistence gateway
\* A file is None when it does not exist.  An output file that exists holds
\* JSON text or not; doc is the parsed document, a record of its keys.
JsonFile(doc) == Some([json |-> TRUE, doc |-> doc])
CorruptFile == Some([json |-> FALSE, doc |-> <<>>])

\* dict.get(key, default)
Get(doc, key, default) == IF key \in DOMAIN doc THEN doc[key] ELSE default

\* asdict / EnhancedJSONEncoder.default: dataclasses become objects and every
\* datetime becomes its ISO-8601 string.
SerNote(n) == [n EXCEPT !.date_added = isoformat(@)]

SerHighlight(h) ==
    [h EXCEPT !.date_added = isoformat(@),
              !.note = IF @ = None THEN None ELSE Some(SerNote(@[1]))]

SerBookmark(b) == [b EXCEPT !.date_added = isoformat(@)]

SerBook(b) ==
    [b EXCEPT !.highlights = [k \in 1..Len(@) |-> SerHighlight(@[k])],
              !.notes = [k \in 1..Len(@) |-> SerNote(@[k])],
              !.bookmarks = [k \in 1..Len(@) |-> SerBookmark(@[k])]]

\* list(a_set): the elements once each, in an order the build decides.
ListsOf(S) == {l \in [1..Cardinality(S) -> S] : Range(l) = S}

\* The document write_json_output dumps, given the order list() produced.
OutputDocument(st, processed_list) ==
    [books |-> [t \in DOMAIN st.books |-> SerBook(st.books[t])],
     errors |-> st.errors,
     processedEntries |-> processed_list,
     lastProcessedTimestamp |->
        IF st.last_processed_timestamp # None
        THEN Some(isoformat(st.last_processed_timestamp[1]))
        ELSE None]

write_json_output(st, processed_list) ==
    JsonFile(OutputDocument(st, processed_list))

\* read_processed_entries gives the state it leaves and the exception that
\* escapes it; FileNotFoundError is the only one it handles.
read_processed_entries(st, file) ==
    IF file = None
    THEN [st |-> st, raised |-> None]
    ELSE IF ~file[1].json
    THEN [st |-> st,
          raised |-> Some([type |-> "JSONDecodeError", msg |-> "Expecting value"])]
    ELSE
    LET data == file[1].doc
        st1 == [st EXCEPT !.processed_entries =
                    Range(Get(data, "processedEntries", <<>>))]
        stamp == Get(data, "lastProcessedTimestamp", None)
    IN  IF stamp = None \/ stamp = Some("")
        THEN [st |-> [st1 EXCEPT !.last_processed_timestamp = None],
              raised |-> None]
        ELSE IF stamp[1] \in DOMAIN FromIsoTable
        THEN [st |-> [st1 EXCEPT !.last_processed_timestamp =
                        Some(FromIsoTable[stamp[1]])],
              raised |-> None]
        ELSE [st |-> st1,
              raised |-> Some([type |-> "ValueError",
                               msg |-> "Invalid isoformat string: '"
                                           \o stamp[1] \o "'"])]

\* read_clippings_file as it would be if a missing file read as empty.
read_clippings_file_tolerant(file) ==
    IF file = None
    THEN [text |-> <<>>, raised |-> None]
    ELSE [text |-> file[1], raised |-> None]

\* read_clippings_file: the text, or the FileNotFoundError that escapes.
read_clippings_file(file) ==
    IF file = None
    THEN [text |-> <<>>,
          raised |-> Some([type |-> "FileNotFoundError",
                           msg |-> "No such file or directory"])]
    ELSE [text |-> file[1], raised |-> None]

\* ------------------------------------------------------ the input texts
Date1 == "Monday, January 1, 2024 8:00:00 AM"
Date2 == "Monday, January 1, 2024 8:05:00 AM"

HeaderDune == <<"Dune", "(", "Frank Herbert", ")">>
HeaderDuneSequel == <<"Dune", "(", "Brian Herbert", ",", "Kevin Anderson", ")">>
HeaderChronicle == <<"Chronicle", "(", NonAsciiAuthor, ")">>

HighlightDune200 ==
    <<HeaderDune,
      <<"-", "Your", "Highlight", "on", "page", "12", "|", "Location", "200",
        "-", "210", "|", "Added on", Date1>>,
      Blank,
      <<"A spice melange quote.">>>>

HighlightSequel200 ==
    <<HeaderDuneSequel,
      <<"-", "Your", "Highlight", "on", "Location", "200", "|", "Added on", Date2>>,
      Blank,
      <<"Fear is the mind-killer.">>>>

HighlightDunePageOnly ==
    <<HeaderDune,
      <<"-", "Your", "Highlight", "on", "page", "12", "|", "Added on", Date1>>,
      Blank,
      <<"A quote from a page.">>>>

NoteDune200 ==
    <<HeaderDune,
      <<"-", "Your", "Note", "on", "Location", "200", "|", "Added on", Date2>>,
      Blank,
      <<"Interesting symbolism.">>,
      Blank>>

NoteSequel200 ==
    <<HeaderDuneSequel,
      <<"-", "Your", "Note", "on", "Location", "200", "|", "Added on", Date1>>,
      Blank,
      <<"On second thought.">>>>

NoteDunePageOnly ==
    <<HeaderDune,
      <<"-", "Your", "Note", "on", "page", "12", "|", "Added on", Date2>>,
      Blank,
      <<"A note on a page.">>>>

NoteDune300 ==
    <<HeaderDune,
      <<"-", "Your", "Note", "on", "Location", "300", "|", "Added on", Date1>>,
      Blank,
      <<"A note of its own.">>>>

BookmarkChronicle ==
    <<HeaderChronicle,
      <<"-", "Your", "Bookmark", "on", "Location", "300", "|", "Added on", Date1>>>>

ClipChronicle ==
    <<<<"Chronicle", "(", "Anonymous", ")">>,
      <<"-", "Your", "Clip", "on", "Location", "200", "|", "Added on", Date1>>,
      Blank,
      <<"A clipped page.">>>>

SingleLine == <<HeaderDune>>

BadDate ==
    <<HeaderDune,
      <<"-", "Your", "Highlight", "on", "Location", "200", "|", "Added on",
        "yesterday">>,
      Blank,
      <<"A quote with a date of its own.">>>>

NoDate ==
    <<HeaderDune,
      <<"-", "Your", "Highlight", "on", "Location", "200">>,
      Blank,
      <<"A quote with no metadata.">>>>

OnlyBlank == <<Blank>>

\* Spec: what the split of a cleaned text can hold at one index.
EntrySet ==
    {clean_text(e) : e \in
        {HighlightDune200, HighlightSequel200, HighlightDunePageOnly,
         NoteDune200, NoteSequel200, NoteDunePageOnly, NoteDune300,
         BookmarkChronicle, ClipChronicle, SingleLine, BadDate, NoDate,
         OnlyBlank}}

\* SpecRun: the blocks of an input file.
BlockSet ==
    {HighlightDune200, NoteDune200, HighlightDunePageOnly, BookmarkChronicle,
     SingleLine}

\* A clippings file: every block is followed by a delimiter line.
RECURSIVE FileText(_)
FileText(blocks) ==
    IF Len(blocks) = 0 THEN <<>>
    ELSE blocks[1] \o <<Delimiter>> \o FileText(Tail(blocks))

SeqsUpTo(S, n) == UNION {[1..k -> S] : k \in 0..n}

InputFiles ==
    {None} \cup {Some(FileText(bs)) : bs \in SeqsUpTo(BlockSet, MaxBlocks)}

\* The output files a first run can find: none, one that is not JSON, earlier
\* outputs of the program, and documents written by hand.
EarlierDocument ==
    [books |-> <<>>,
     errors |-> <<>>,
     processedEntries |->
        <<generate_entry_id(HighlightDune200), generate_entry_id(SingleLine),
          generate_entry_id(HighlightDune200)>>,
     lastProcessedTimestamp |-> Some("2024-01-01")]

OutputFiles ==
    {None, CorruptFile,
     JsonFile(EarlierDocument),
     JsonFile([EarlierDocument EXCEPT
                 !.processedEntries = <<generate_entry_id(NoteDune200)>>,
                 !.lastProcessedTimestamp = Some("2024-01-01T16:30:00")]),
     JsonFile([EarlierDocument EXCEPT !.lastProcessedTimestamp = Some("last week")]),
     JsonFile([books |-> <<>>, errors |-> <<>>])}

\* ------------------------------------------------------------- the state
ParserState ==
    [books |-> books, errors |-> errors, processed_entries |-> processed_entries,
     last_processed_timestamp |-> last_processed_timestamp]

SetParser(st) ==
    /\ books' = st.books
    /\ errors' = st.errors
    /\ processed_entries' = st.processed_entries
    /\ last_processed_timestamp' = st.last_processed_timestamp

\* -------------------------------------------------------------- Spec
\* A parser as constructed, in parse_clippings, before the first entry.
Init ==
    /\ books = KindleParserInit.books
    /\ errors = KindleParserInit.errors
    /\ processed_entries = KindleParserInit.processed_entries
    /\ last_processed_timestamp = KindleParserInit.last_processed_timestamp
    /\ entries = <<>>
    /\ pc = "parsing"
    /\ content = None
    /\ input_file = None
    /\ output_file = None
    /\ prior_output = None
    /\ run = 1

\* One iteration of the loop of parse_clippings, on the entry at the next index.
ParseNextEntry ==
    /\ pc = "parsing"
    /\ Len(entries) < MaxEntries
    /\ \E entry \in EntrySet :
        LET r == ParseIteration(ParserState, entry, Len(entries))
        IN  /\ SetParser(r.st)
            /\ entries' = Append(entries, entry)
            /\ pc' = IF r.raised = None THEN "parsing" ELSE "failed"
    /\ UNCHANGED fileVars

Next == ParseNextEntry

Spec == Init /\ [][Next]_vars

\* ------------------------------------------------------------ SpecRun
\* process_clippings_file, statement by statement, and the next invocation of
\* the program on the files the last one left.
InitRun ==
    /\ books = KindleParserInit.books
    /\ errors = KindleParserInit.errors
    /\ processed_entries = KindleParserInit.processed_entries
    /\ last_processed_timestamp = KindleParserInit.last_processed_timestamp
    /\ entries = <<>>
    /\ pc = "start"
    /\ content = None
    /\ input_file \in InputFiles
    /\ output_file \in OutputFiles
    /\ prior_output = output_file
    /\ run = 1

ReadProcessedEntries ==
    /\ pc = "start"
    /\ LET r == read_processed_entries(ParserState, output_file)
       IN  /\ SetParser(r.st)
           /\ pc' = IF r.raised = None THEN "loaded" ELSE "failed"
    /\ UNCHANGED <<entries, content, input_file, output_file, prior_output, run>>

ReadClippingsFile ==
    /\ pc = "loaded"
    /\ LET r == read_clippings_file(input_file)
       IN  IF r.raised = None
           THEN content' = Some(r.text) /\ pc' = "read"
           ELSE content' = content /\ pc' = "failed"
    /\ UNCHANGED <<parserVars, entries, input_file, output_file, prior_output, run>>

ParseClippings ==
    /\ pc = "read"
    /\ LET r == parse_clippings(ParserState, content[1])
       IN  /\ SetParser(r.st)
           /\ pc' = IF r.raised = None THEN "parsed" ELSE "failed"
    /\ entries' = SplitEntries(clean_text(content[1]))
    /\ UNCHANGED <<content, input_file, output_file, prior_output, run>>

WriteJsonOutput ==
    /\ pc = "parsed"
    /\ \E processed_list \in ListsOf(processed_entries) :
        output_file' = write_json_output(ParserState, processed_list)
    /\ pc' = "written"
    /\ UNCHANGED <<parserVars, entries, content, input_file, prior_output, run>>

\* The program is invoked again: a new process, a new KindleParser.
NextRun ==
    /\ pc \in {"written", "failed"}
    /\ run < MaxRuns
    /\ SetParser(KindleParserInit)
    /\ entries' = <<>>
    /\ content' = None
    /\ pc' = "start"
    /\ prior_output' = output_file
    /\ run' = run + 1
    /\ UNCHANGED <<input_file, output_file>>

NextOfRun ==
    \/ ReadProcessedEntries
    \/ ReadClippingsFile
    \/ ParseClippings
    \/ WriteJsonOutput
    \/ NextRun

SpecRun == InitRun /\ [][NextOfRun]_vars

\* ===================================================== claims under Spec
\* What a step of the loop took, read off the entry as the extractor reads it.
Lines(entry) == StripLines(entry)
IsBlock(entry) == Len(Lines(entry)) >= 2
MetaOf(entry) == parse_metadata(Lines(entry)[2])
TitleOf(entry) == parse_book_info(Lines(entry)[1]).title
AuthorsOf(entry) == parse_book_info(Lines(entry)[1]).authors
HasType(entry, type) ==
    IsBlock(entry) /\ LET meta == MetaOf(entry)
                      IN  meta.exc = None /\ meta.entry_type = type
NoteOf(entry) ==
    Note(IF Len(Lines(entry)) > 2 THEN BodyText(Lines(entry)) ELSE "",
         MetaOf(entry).date_added, MetaOf(entry).page, MetaOf(entry).location)

\* The step from the unprimed to the primed state handled `entry`.
Took(entry) == entries' = Append(entries, entry)

HighlightsOf(bs, title) == IF title \in DOMAIN bs THEN bs[title].highlights ELSE <<>>
NotesOf(bs, title) == IF title \in DOMAIN bs THEN bs[title].notes ELSE <<>>

\* The highlights whose location start is the start of the given location.
Matching(highlights, location) ==
    {k \in 1..Len(highlights) :
        /\ highlights[k].location # None
        /\ location # None
        /\ highlights[k].location[1].start = location[1].start}

\* C1: a Note block whose Book holds exactly one Highlight with the Note's
\* location start leaves the Note in that Highlight's note field, leaves the
\* Book's notes list as it was, and leaves every other Highlight as it was.
C1_NoteAttachesToOnlyMatch ==
    [][\A entry \in EntrySet :
        (Took(entry) /\ HasType(entry, "Note")) =>
            LET title == TitleOf(entry)
                before == HighlightsOf(books, title)
                hits == Matching(before, MetaOf(entry).location)
            IN  Cardinality(hits) = 1 =>
                    LET after == HighlightsOf(books', title)
                        k == CHOOSE k \in hits : TRUE
                    IN  /\ Len(after) = Len(before)
                        /\ after[k].note = Some(NoteOf(entry))
                        /\ NotesOf(books', title) = NotesOf(books, title)
                        /\ \A j \in 1..Len(before) : j # k => after[j] = before[j]
      ]_vars

\* C2: a Note block whose Book holds no Highlight with the Note's location
\* start (no highlights at all, other starts only, or an absent location on
\* either side) ends as the last element of the Book's notes, and every
\* Highlight of the Book is as it was.
C2_UnmatchedNoteStandsAlone ==
    [][\A entry \in EntrySet :
        (Took(entry) /\ HasType(entry, "Note")) =>
            LET title == TitleOf(entry)
                before == HighlightsOf(books, title)
            IN  Matching(before, MetaOf(entry).location) = {} =>
                    /\ NotesOf(books', title) =
                           Append(NotesOf(books, title), NoteOf(entry))
                    /\ HighlightsOf(books', title) = before
      ]_vars

\* C3: a Note block whose Book holds two or more Highlights with the Note's
\* location start is attached to the one appended last of them, replacing a
\* note attached before, and every other Highlight is as it was.
C3_NoteAttachesToLatestMatch ==
    [][\A entry \in EntrySet :
        (Took(entry) /\ HasType(entry, "Note")) =>
            LET title == TitleOf(entry)
                before == HighlightsOf(books, title)
                hits == Matching(before, MetaOf(entry).location)
            IN  Cardinality(hits) >= 2 =>
                    LET after == HighlightsOf(books', title)
                        k == CHOOSE k \in hits : \A j \in hits : j <= k
                    IN  /\ Len(after) = Len(before)
                        /\ after[k].note = Some(NoteOf(entry))
                        /\ \A j \in 1..Len(before) : j # k => after[j] = before[j]
      ]_vars

\* The entries whose index no Error carries.
RECURSIVE WithoutFailed(_, _, _)
WithoutFailed(ents, k, failed) ==
    IF k > Len(ents) THEN <<>>
    ELSE (IF (k - 1) \in failed THEN <<>> ELSE <<ents[k]>>)
            \o WithoutFailed(ents, k + 1, failed)

FailedIndexes == {errors[k].line_number : k \in 1..Len(errors)}

FreshParse(ents) ==
    ParseFrom([st |-> KindleParserInit, raised |-> None], ents, 1)

\* C4: parse_clippings never raises; the Errors carry the indexes of the
\* blocks that threw, one each and in block order; and the books are the books
\* of the same entries parsed without the blocks that threw, none of which
\* throws then.
C4_FailingBlockLeavesBooksAlone ==
    /\ pc # "failed"
    /\ FailedIndexes \subseteq 0..(Len(entries) - 1)
    /\ \A k \in 1..(Len(errors) - 1) :
            errors[k].line_number < errors[k + 1].line_number
    /\ \A k \in 1..Len(entries) :
            (/\ Len(Lines(entries[k])) > 0
             /\ (~IsBlock(entries[k]) \/ MetaOf(entries[k]).exc # None))
                => (k - 1) \in FailedIndexes
    /\ LET ref == FreshParse(WithoutFailed(entries, 1, FailedIndexes))
       IN  /\ ref.raised = None
           /\ ref.st.errors = <<>>
           /\ ref.st.books = books

\* A Note threw in the merger, a block after it was merged, and a book exists.
C4_Witness ==
    \E k \in 1..Len(entries), j \in 1..Len(errors) :
        /\ errors[j].line_number = k - 1
        /\ errors[j].error_message = NoneTypeHasNoStart
        /\ HasType(entries[k], "Note")
        /\ \E m \in (k + 1)..Len(entries) :
                /\ HasType(entries[m], "Highlight")
                /\ (m - 1) \notin FailedIndexes

\* C5: a block of a single line adds exactly one Error, with the block's index
\* and the invalid-entry-format message, does not raise out of parse_clippings,
\* and leaves the books as they were.
C5_SingleLineBlockIsOneError ==
    [][\A entry \in EntrySet :
        (Took(entry) /\ Len(Lines(entry)) = 1) =>
            /\ errors' = Append(errors,
                    Error(Len(entries),
                          "Invalid entry format at line " \o ToString(Len(entries))))
            /\ books' = books
            /\ pc' = "parsing"
      ]_vars

\* A single-line block was taken after a book had been created.
C5_Witness ==
    \E k \in 2..Len(entries), j \in 1..Len(errors) :
        /\ Len(Lines(entries[k])) = 1
        /\ errors[j].line_number = k - 1
        /\ HasType(entries[1], "Highlight")
        /\ DOMAIN books # {}

\* The entries that reached the merger: extraction passed and the type is one
\* parse_entry dispatches on.
Merged(entry) ==
    IsBlock(entry) /\ LET meta == MetaOf(entry)
                      IN  /\ meta.exc = None
                          /\ meta.entry_type \in {"Highlight", "Note", "Bookmark"}

\* C8: there is one Book per title that reached the merger, and its authors are
\* those of the first block with that title that reached the merger, whatever
\* the authors of the later ones.
C8_AuthorsFixedAtCreation ==
    LET merged == {k \in 1..Len(entries) : Merged(entries[k])}
    IN  /\ DOMAIN books = {TitleOf(entries[k]) : k \in merged}
        /\ \A title \in DOMAIN books :
                /\ books[title].title = title
                /\ books[title].authors =
                       AuthorsOf(entries[Min({k \in merged :
                                                TitleOf(entries[k]) = title})])

\* Two merged blocks of one title name different authors.
C8_Witness ==
    \E j \in 1..Len(entries), k \in 1..Len(entries) :
        /\ j < k
        /\ Merged(entries[j]) /\ Merged(entries[k])
        /\ TitleOf(entries[j]) = TitleOf(entries[k])
        /\ AuthorsOf(entries[j]) # AuthorsOf(entries[k])
        /\ TitleOf(entries[j]) \in DOMAIN books

\* ================================================== claims under SpecRun
\* The ledger a run starts from: what read_processed_entries makes of the
\* output file the run found.
Loaded == read_processed_entries(KindleParserInit, prior_output).st

\* Two output files hold the same result: the same books and errors, the same
\* set of processed entries, the same timestamp.
SameOutput(a, b) ==
    /\ a # None /\ b # None
    /\ a[1].json /\ b[1].json
    /\ a[1].doc.books = b[1].doc.books
    /\ a[1].doc.errors = b[1].doc.errors
    /\ Range(a[1].doc.processedEntries) = Range(b[1].doc.processedEntries)
    /\ a[1].doc.lastProcessedTimestamp = b[1].doc.lastProcessedTimestamp

\* C6: a run that follows a run on the same input file and the same output
\* path writes what that run wrote: same books, same errors, same set of
\* processed entries, same last timestamp.
C6_RerunWritesTheSameOutput ==
    (run >= 2 /\ pc = "written") => SameOutput(output_file, prior_output)

\* A second run wrote books, an error and a ledger that is not empty.
C6_Witness ==
    /\ run = 2
    /\ pc = "written"
    /\ DOMAIN books # {}
    /\ errors # <<>>
    /\ Cardinality(processed_entries) >= 2
    /\ last_processed_timestamp # None

\* C7: the output file changes only in the last step of a run, after the
\* ledger load, the input read and the parse; a missing input file or an output
\* file that is not JSON ends the run in an error with the output file as it
\* was; a missing output file is no error and the run starts from an empty
\* ledger.
C7_OutputWrittenLastOrNotAtAll ==
    /\ pc # "written" => output_file = prior_output
    /\ input_file = None => pc \in {"start", "loaded", "failed"}
    /\ prior_output = CorruptFile => pc \in {"start", "failed"}
    /\ (prior_output = None /\ input_file # None) =>
            /\ pc # "failed"
            /\ pc # "start" =>
                    /\ processed_entries = {}
                    /\ last_processed_timestamp = None

\* A run failed on a missing input file and an earlier output is still there.
C7_Witness ==
    /\ pc = "failed"
    /\ input_file = None
    /\ output_file = JsonFile(EarlierDocument)
    /\ processed_entries # {}

\* The Highlight blocks of a title among the entries that pass extraction.
HighlightBlocks(title) ==
    {k \in 1..Len(entries) :
        HasType(entries[k], "Highlight") /\ TitleOf(entries[k]) = title}

\* C9: what parse_clippings makes of a text does not depend on the ledger: the
\* books and errors are those of a parser with an empty ledger, and a Book has
\* one Highlight for every Highlight block of its title, repeated or not, in
\* the ledger or not.
C9_LedgerIsNoFilter ==
    pc \in {"parsed", "written"} =>
        LET ref == parse_clippings(KindleParserInit, content[1])
        IN  /\ books = ref.st.books
            /\ errors = ref.st.errors
            /\ \A title \in DOMAIN books :
                    Len(books[title].highlights) =
                        Cardinality(HighlightBlocks(title))

\* The same Highlight block was parsed twice with its fingerprint in the ledger.
C9_Witness ==
    /\ pc = "parsed"
    /\ Len(entries) >= 2
    /\ entries[1] = entries[2]
    /\ HasType(entries[1], "Highlight")
    /\ generate_entry_id(Lines(entries[1])) \in processed_entries
    /\ Len(books[TitleOf(entries[1])].highlights) = 2

\* C10: from the ledger load to the end of the run the ledger is what was
\* loaded, and the run writes that set of processed entries and that timestamp
\* (the empty set and null when there was no output file).
C10_ParsingLeavesLedgerAlone ==
    /\ pc \in {"loaded", "read", "parsed", "written"} =>
            /\ processed_entries = Loaded.processed_entries
            /\ last_processed_timestamp = Loaded.last_processed_timestamp
    /\ pc = "written" =>
            /\ Range(output_file[1].doc.processedEntries) = Loaded.processed_entries
            /\ output_file[1].doc.lastProcessedTimestamp =
                   (IF Loaded.last_processed_timestamp = None THEN None
                    ELSE Some(isoformat(Loaded.last_processed_timestamp[1])))
            /\ prior_output = None =>
                    /\ output_file[1].doc.processedEntries = <<>>
                    /\ output_file[1].doc.lastProcessedTimestamp = None

\* A run that merged blocks wrote a ledger that was loaded and is not empty.
C10_Witness ==
    /\ pc = "written"
    /\ DOMAIN books # {}
    /\ Len(entries) >= 3
    /\ Loaded.processed_entries # {}
    /\ Loaded.last_processed_timestamp # None

====
